---- MODULE Spec2Model ----
(***************************************************************************)
(* Booking / payment reconciliation workflow of backend-rideinbls:         *)
(* POST /create-order, POST /verify and POST /cancel-by-vehicle/:code of   *)
(* src/routes/paymentRoutes.js over the Vehicle and BookingPayment         *)
(* collections (src/unnamed/part_001, src/unnamed/part_002), the vehicle   *)
(* and booking administration endpoints of src/routes/admin.js and         *)
(* src/routes/vehicleRoutes.js, and the one-time-password flows of         *)
(* paymentRoutes.js (770-1291).                                            *)
(*                                                                         *)
(* Time is counted in minutes.  Request handlers are processes; every      *)
(* await on the document store or on an external provider that another     *)
(* request can interleave with is a separate step.                         *)
(***************************************************************************)
EXTENDS Integers, Sequences, FiniteSets, TLC

\* ------------------------------------------------------------------ bounds
MaxOrders == 2          \* provider orders opened in one behaviour
MaxRefunds == 2         \* successful provider refunds counted per payment

Vehicles == {1}
Users == {1, 2}
VerifyProcs == {1, 2}   \* concurrently running POST /verify requests
CancelProcs == {1}      \* concurrently running POST /cancel requests

\* instants, in minutes, the wall clock takes (24h and 24h01m after the
\* start; with 23h59m where the refund boundary is examined) and instants a
\* client may ask for (30h, 40h, 50h, 60h)
ClockValues == {0, 1440, 1441}
FineClockValues == {0, 1439, 1440, 1441}
DateValues == {1800, 2400, 3000, 3600}
\* windows a client books: [30h,60h] strictly contains [40h,50h], which
\* touches [30h,40h] in one instant
Windows == {<<1800, 3600>>, <<2400, 3000>>, <<1800, 2400>>}

\* ------------------------------------------------------- program constants
RefundWindowHours == 24
MinutesPerHour == 60
StartBufferMinutes == 5
MinDurationHours == 1
MaxDurationHours == 720
NullDate == -1          \* endDate: null of an immediate booking
NoUser == 0             \* bookedBy: null
MalformedId == 0        \* a vehicleId that is not an ObjectId
MissingVehicleId == 9   \* a well-formed id of no vehicle document
Amount == 250

KeySecret == "RAZORPAY_KEY_SECRET"
ForgedSecret == "guess"

ActiveStatuses == {"Pending", "Confirmed"}

\* ------------------------------------------------------------------- state
\* ---- one-time passwords (paymentRoutes.js 770-772, 924-975); minutes
OtpTtlMinutes == 10     \* OTP_TTL_MS, in minutes
MaxOtpAttempts == 3     \* MAX_OTP_ATTEMPTS
Emails == {1}
OtpValues == {1, 2}     \* values generateOTP can draw
Passwords == {1, 2}
OtpProcs == {1, 2}      \* concurrent OTP verification requests
OtpClockValues == {10, 11}
Flows == {"register", "login", "forgot"}

\* bcrypt.hash / bcrypt.compare, taken as collision free
Hash(password) == <<"bcrypt", password>>
Compare(password, hashed) == hashed = Hash(password)

NoUserData == <<>>      \* userData: null
NoOtp ==
  [present |-> FALSE, otp |-> 0, userData |-> NoUserData, type |-> "none",
   expiry |-> 0, attempts |-> 0, userId |-> FALSE]
NoAccount == [exists |-> FALSE, password |-> NoUserData]
NoOReq ==
  [flow |-> "none", email |-> 0, otp |-> 0, expiry |-> 0,
   userData |-> NoUserData, newPassword |-> 0]


VARIABLES
  strictQuery,  \* mongoose strictQuery option of the build (fixed at start)
  now,          \* wall clock, minutes
  vehicles,     \* Vehicle collection: id -> document
  bookings,     \* BookingPayment collection: bookingCode -> document
  orders,       \* payment-provider orders: sequence, order id = index
  refunds,      \* provider side: successful refunds per payment id
  initResp,     \* response of the latest POST /create-order
  vpc, vreq, vsnap, vresp,          \* POST /verify requests
  cpc, creq, cmem, cresp,           \* POST /cancel-by-vehicle requests
  deleting,     \* vehicles an admin delete has found free and not yet removed
  otpStore,     \* in-memory OTP records: email -> record
  accounts,     \* User collection: email -> document
  opc, oreq, oresp                  \* OTP verification requests

vars == <<strictQuery, now, vehicles, bookings, orders, refunds, initResp,
          vpc, vreq, vsnap, vresp, cpc, creq, cmem, cresp, deleting,
          otpStore, accounts, opc, oreq, oresp>>

dbVars == <<vehicles, bookings>>
verifyVars == <<vpc, vreq, vsnap, vresp>>
cancelVars == <<cpc, creq, cmem, cresp>>
otpVars == <<otpStore, accounts, opc, oreq, oresp>>

Codes == 1..MaxOrders   \* booking codes; the code of order i is i

\* ---------------------------------------------------------------- documents
NewVehicle ==
  [exists |-> TRUE, isAvailable |-> TRUE, isBooked |-> FALSE,
   bookedBy |-> NoUser, bookedByName |-> NoUser]

NoBooking ==
  [exists |-> FALSE, user |-> NoUser, vehicle |-> 0,
   startDate |-> NullDate, endDate |-> NullDate, totalPrice |-> 0,
   providerPaymentId |-> 0, orderId |-> 0, amount |-> 0,
   payStatus |-> "none", isRefunded |-> FALSE, refundId |-> 0,
   failureReason |-> "none", paymentStatus |-> "none",
   bookingStatus |-> "none", status |-> "unset", bookingType |-> "unset",
   createdAt |-> 0]

\* The schema has no `status` and no `bookingType` path: strict mode drops
\* them when a document is built or a path is assigned.
SchemaCast(doc) ==
  [doc EXCEPT !.status = "unset", !.bookingType = "unset"]

\* document.save(): only the paths whose value differs from the loaded one
\* are sent as $set; every other path keeps what the collection holds now.
SaveModified(current, loaded, changed) ==
  [f \in DOMAIN current |->
     IF changed[f] # loaded[f] THEN changed[f] ELSE current[f]]

\* ------------------------------------------------------------------ queries
\* $lte / $gte of a stored Date against a query Date; null never matches
Lte(stored, q) == stored # NullDate /\ stored <= q
Gte(stored, q) == stored # NullDate /\ stored >= q

\* the `status: { $in: ['Pending','Confirmed'] }` clause of the filters
StatusClause(doc, sq) ==
  IF sq THEN TRUE ELSE doc.status \in ActiveStatuses

\* variant: the conflict query without its third clause
CreateOrderConflictTwo(bks, sq, v, s, e) ==
  \E c \in DOMAIN bks :
    /\ bks[c].exists
    /\ bks[c].vehicle = v
    /\ StatusClause(bks[c], sq)
    /\ \/ Lte(bks[c].startDate, s) /\ Gte(bks[c].endDate, s)
       \/ Lte(bks[c].startDate, e) /\ Gte(bks[c].endDate, e)

\* three-clause conflict query of POST /create-order
CreateOrderConflict(bks, sq, v, s, e) ==
  \E c \in DOMAIN bks :
    /\ bks[c].exists
    /\ bks[c].vehicle = v
    /\ StatusClause(bks[c], sq)
    /\ \/ Lte(bks[c].startDate, s) /\ Gte(bks[c].endDate, s)
       \/ Lte(bks[c].startDate, e) /\ Gte(bks[c].endDate, e)
       \/ Gte(bks[c].startDate, s) /\ Lte(bks[c].endDate, e)

\* two-clause conflict query inside the transaction of POST /verify
VerifyConflict(bks, sq, v, s, e) ==
  \E c \in DOMAIN bks :
    /\ bks[c].exists
    /\ bks[c].vehicle = v
    /\ StatusClause(bks[c], sq)
    /\ \/ Lte(bks[c].startDate, s) /\ Gte(bks[c].endDate, s)
       \/ Lte(bks[c].startDate, e) /\ Gte(bks[c].endDate, e)

\* ------------------------------------------------------------ signature
\* HMAC-SHA256(secret, orderId + "|" + paymentId), taken as collision free
Hmac(secret, orderId, paymentId) == <<secret, orderId, paymentId>>

\* the provider issues one payment per order: payment id = order id
PaymentOf(orderId) == orderId

\* amount <-> paise
ToPaise(a) == a * 100
FromPaise(p) == p \div 100

Resp(code, msg) == [code |-> code, msg |-> msg]
NoResp == Resp(0, "none")

\* ------------------------------------------------------------------- dates
NoDateIn == [k |-> "none", t |-> 0]
BadDateIn == [k |-> "bad", t |-> 0]
OldDateIn == [k |-> "old", t |-> 0]        \* parses to a year before 2020
DateIn(t) == [k |-> "at", t |-> t]
DateInputs == {NoDateIn, BadDateIn, OldDateIn} \cup {DateIn(t) : t \in DateValues}

\* --------------------------------------------------- POST /create-order
\* variant: the vehicle id is only examined after the body's other fields
CreateOrderCheckLate(vehicleId, amount, origin, destination, startDate, endDate) ==
  LET hasStart == startDate.k # "none"
      hasEnd == endDate.k # "none"
      scheduled == hasStart /\ hasEnd
      s == IF scheduled THEN startDate.t ELSE now
      e == IF scheduled THEN endDate.t ELSE NullDate
      type == IF scheduled THEN "scheduled" ELSE "immediate"
      fail(code, msg) == [code |-> code, msg |-> msg, s |-> s, e |-> e, type |-> type]
  IN  IF amount <= 0 THEN fail(400, "Invalid amount")
      ELSE IF origin = "" \/ destination = "" THEN fail(400, "Origin and destination are required")
      ELSE IF hasStart # hasEnd THEN fail(400, "Please provide both start and end dates or leave both empty for immediate booking")
      ELSE IF scheduled /\ (startDate.k = "bad" \/ endDate.k = "bad")
        THEN fail(400, "Invalid date format")
      ELSE IF scheduled /\ (startDate.k = "old" \/ endDate.k = "old")
        THEN fail(400, "Invalid date - dates appear to be incorrect")
      ELSE IF scheduled /\ s < now + StartBufferMinutes
        THEN fail(400, "Start time must be at least 5 minutes in the future")
      ELSE IF scheduled /\ e <= s THEN fail(400, "End time must be after start time")
      ELSE IF scheduled /\ e - s < MinDurationHours * MinutesPerHour
        THEN fail(400, "Minimum booking duration is 1 hour")
      ELSE IF scheduled /\ e - s > MaxDurationHours * MinutesPerHour
        THEN fail(400, "Maximum booking duration is 30 days")
      ELSE IF vehicleId = MalformedId THEN fail(400, "Invalid vehicle ID")
      ELSE IF vehicleId \notin Vehicles \/ ~vehicles[vehicleId].exists
        THEN fail(404, "Vehicle not found")
      ELSE IF ~vehicles[vehicleId].isAvailable
        THEN fail(400, "Vehicle is not available for booking")
      ELSE IF scheduled /\ CreateOrderConflict(bookings, strictQuery, vehicleId, s, e)
        THEN fail(400, "Vehicle is already booked for the selected time period")
      ELSE fail(200, "Payment order created successfully")

\* Everything up to the provider call: the response it returns early with,
\* or code 200 with the processed window and booking type.
CreateOrderCheck(vehicleId, amount, origin, destination, startDate, endDate) ==
  LET hasStart == startDate.k # "none"
      hasEnd == endDate.k # "none"
      scheduled == hasStart /\ hasEnd
      s == IF scheduled THEN startDate.t ELSE now
      e == IF scheduled THEN endDate.t ELSE NullDate
      type == IF scheduled THEN "scheduled" ELSE "immediate"
      fail(code, msg) == [code |-> code, msg |-> msg, s |-> s, e |-> e, type |-> type]
  IN  IF vehicleId = MalformedId THEN fail(400, "Invalid vehicle ID")
      ELSE IF amount <= 0 THEN fail(400, "Invalid amount")
      ELSE IF origin = "" \/ destination = "" THEN fail(400, "Origin and destination are required")
      ELSE IF hasStart # hasEnd THEN fail(400, "Please provide both start and end dates or leave both empty for immediate booking")
      ELSE IF scheduled /\ (startDate.k = "bad" \/ endDate.k = "bad")
        THEN fail(400, "Invalid date format")
      ELSE IF scheduled /\ (startDate.k = "old" \/ endDate.k = "old")
        THEN fail(400, "Invalid date - dates appear to be incorrect")
      ELSE IF scheduled /\ s < now + StartBufferMinutes
        THEN fail(400, "Start time must be at least 5 minutes in the future")
      ELSE IF scheduled /\ e <= s THEN fail(400, "End time must be after start time")
      ELSE IF scheduled /\ e - s < MinDurationHours * MinutesPerHour
        THEN fail(400, "Minimum booking duration is 1 hour")
      ELSE IF scheduled /\ e - s > MaxDurationHours * MinutesPerHour
        THEN fail(400, "Maximum booking duration is 30 days")
      ELSE IF vehicleId \notin Vehicles \/ ~vehicles[vehicleId].exists
        THEN fail(404, "Vehicle not found")
      ELSE IF ~vehicles[vehicleId].isAvailable
        THEN fail(400, "Vehicle is not available for booking")
      ELSE IF scheduled /\ CreateOrderConflict(bookings, strictQuery, vehicleId, s, e)
        THEN fail(400, "Vehicle is already booked for the selected time period")
      ELSE fail(200, "Payment order created successfully")

\* variant: the order's reservation row is stored at once, payment pending
CreateOrderEager(u, vehicleId, amount, origin, destination, startDate, endDate, providerOk) ==
  LET r == CreateOrderCheck(vehicleId, amount, origin, destination, startDate, endDate)
      code == Len(orders) + 1
  IN  /\ IF r.code # 200
           THEN /\ initResp' = Resp(r.code, r.msg)
                /\ UNCHANGED <<orders, bookings>>
         ELSE IF ~providerOk
           THEN /\ initResp' = Resp(500, "Failed to create payment order")
                /\ UNCHANGED <<orders, bookings>>
         ELSE /\ Len(orders) < MaxOrders
              /\ orders' = Append(orders,
                   [vehicleId |-> vehicleId, userId |-> u,
                    startDate |-> r.s, endDate |-> r.e,
                    bookingType |-> r.type, bookingCode |-> code,
                    amount |-> ToPaise(amount)])
              /\ bookings' = [bookings EXCEPT ![code] =
                   [NoBooking EXCEPT !.exists = TRUE, !.user = u,
                      !.vehicle = vehicleId, !.startDate = r.s, !.endDate = r.e,
                      !.totalPrice = amount, !.orderId = code, !.amount = amount,
                      !.payStatus = "pending", !.paymentStatus = "Pending",
                      !.bookingStatus = "Pending", !.createdAt = now]]
              /\ initResp' = Resp(200, r.msg)
      /\ UNCHANGED <<otpVars, deleting, strictQuery, now, vehicles, refunds>>
      /\ UNCHANGED verifyVars
      /\ UNCHANGED cancelVars

CreateOrder(u, vehicleId, amount, origin, destination, startDate, endDate, providerOk) ==
  LET r == CreateOrderCheck(vehicleId, amount, origin, destination, startDate, endDate)
      code == Len(orders) + 1
  IN  /\ IF r.code # 200
           THEN /\ initResp' = Resp(r.code, r.msg)
                /\ orders' = orders
         ELSE IF ~providerOk
           THEN /\ initResp' = Resp(500, "Failed to create payment order")
                /\ orders' = orders
         ELSE /\ Len(orders) < MaxOrders
              /\ orders' = Append(orders,
                   [vehicleId |-> vehicleId, userId |-> u,
                    startDate |-> r.s, endDate |-> r.e,
                    bookingType |-> r.type, bookingCode |-> code,
                    amount |-> ToPaise(amount)])
              /\ initResp' = Resp(200, r.msg)
      /\ UNCHANGED <<otpVars, deleting, strictQuery, now, vehicles, bookings, refunds>>
      /\ UNCHANGED verifyVars
      /\ UNCHANGED cancelVars

\* ------------------------------------------------------------------- clock
TickTo(t) ==
  /\ t > now /\ now' = t
  /\ UNCHANGED <<otpVars, deleting, strictQuery, vehicles, bookings, orders, refunds, initResp>>
  /\ UNCHANGED verifyVars
  /\ UNCHANGED cancelVars

Tick == \E t \in ClockValues : TickTo(t)
TickFine == \E t \in FineClockValues : TickTo(t)

\* --------------------------------------------------------- POST /verify
\* response: status code, booking returned, and in msg the error text of a
\* failure or, for a 200 (whose text is the same on both paths), the path the
\* transaction took: "replay" (existing paid row returned) or "created"
VResp(code, msg, booking) == [code |-> code, msg |-> msg, booking |-> booking]
NoVResp == VResp(0, "none", 0)
NoSnap == [bookings |-> [c \in Codes |-> NoBooking],
           vehicles |-> [v \in Vehicles |-> NewVehicle]]

\* signatures a client can present: the ones the provider issued for the
\* payments of existing orders, and forgeries made without the key secret
Signatures ==
  {Hmac(KeySecret, o, PaymentOf(o)) : o \in 1..MaxOrders}
    \cup {Hmac(ForgedSecret, o, PaymentOf(o)) : o \in 1..MaxOrders}

\* the BookingPayment.create([...]) document of the transaction
NewBooking(o, u, orderId, paymentId, at) ==
  SchemaCast(
    [exists |-> TRUE, user |-> u, vehicle |-> o.vehicleId,
     startDate |-> IF o.startDate # NullDate THEN o.startDate ELSE at,
     endDate |-> o.endDate,
     totalPrice |-> FromPaise(o.amount),
     providerPaymentId |-> paymentId, orderId |-> orderId,
     amount |-> FromPaise(o.amount),
     payStatus |-> "paid", isRefunded |-> FALSE, refundId |-> 0,
     failureReason |-> "none", paymentStatus |-> "Paid",
     bookingStatus |-> "Confirmed", status |-> "Confirmed",
     bookingType |-> o.bookingType, createdAt |-> at])

\* vehicle fields assigned for an immediate booking
MarkBooked(veh, u) ==
  [veh EXCEPT !.isAvailable = FALSE, !.isBooked = TRUE,
              !.bookedBy = u, !.bookedByName = u]

TxResult(kind, msg, bks, vehs, booking) ==
  [kind |-> kind, msg |-> msg, bookings |-> bks, vehicles |-> vehs,
   booking |-> booking]

\* variant without the transaction: a failing vehicle save leaves the
\* reservation inserted just before it
VerifyTransactionPartial(snap, bks, vehs, sq, at, orderId, u, paymentId, fault) ==
  LET o == orders[orderId]
      c == o.bookingCode
      v == o.vehicleId
      existing == snap.bookings[c]
      veh == snap.vehicles[v]
      abort(msg) == TxResult("abort", msg, bks, vehs, 0)
      retry == TxResult("retry", "none", bks, vehs, 0)
      doc == NewBooking(o, u, orderId, paymentId, at)
      immediate == o.bookingType = "immediate"
      bks2 == [bks EXCEPT ![c] = doc]
      vehs2 == IF immediate
                 THEN [vehs EXCEPT ![v] = SaveModified(vehs[v], veh, MarkBooked(veh, u))]
                 ELSE vehs
  IN  IF existing.exists
        THEN IF existing.payStatus = "paid"
               THEN TxResult("commit", "replay", bks, vehs, c)
               ELSE abort("Booking exists but payment not completed")
      ELSE IF ~veh.exists THEN abort("Vehicle not found")
      ELSE IF ~veh.isAvailable THEN abort("Vehicle no longer available")
      ELSE IF o.bookingType = "scheduled"
              /\ VerifyConflict(snap.bookings, sq, v, o.startDate, o.endDate)
        THEN abort("Vehicle has been booked by someone else during payment process")
      ELSE IF fault = "insert" THEN abort("insert failed")
      ELSE IF bks[c].exists THEN retry
      ELSE IF immediate /\ fault = "save"
        THEN TxResult("abort", "save failed", bks2, vehs, 0)
      ELSE IF immediate /\ MarkBooked(veh, u) # veh /\ vehs[v] # veh THEN retry
      ELSE TxResult("commit", "created", bks2, vehs2, c)

\* variant: the vehicle is marked for every booking type
VerifyTransactionEager(snap, bks, vehs, sq, at, orderId, u, paymentId, fault) ==
  LET o == orders[orderId]
      c == o.bookingCode
      v == o.vehicleId
      existing == snap.bookings[c]
      veh == snap.vehicles[v]
      abort(msg) == TxResult("abort", msg, bks, vehs, 0)
      retry == TxResult("retry", "none", bks, vehs, 0)
      doc == NewBooking(o, u, orderId, paymentId, at)
      bks2 == [bks EXCEPT ![c] = doc]
      vehs2 == [vehs EXCEPT ![v] = SaveModified(vehs[v], veh, MarkBooked(veh, u))]
  IN  IF existing.exists
        THEN IF existing.payStatus = "paid"
               THEN TxResult("commit", "replay", bks, vehs, c)
               ELSE abort("Booking exists but payment not completed")
      ELSE IF ~veh.exists THEN abort("Vehicle not found")
      ELSE IF ~veh.isAvailable THEN abort("Vehicle no longer available")
      ELSE IF o.bookingType = "scheduled"
              /\ VerifyConflict(snap.bookings, sq, v, o.startDate, o.endDate)
        THEN abort("Vehicle has been booked by someone else during payment process")
      ELSE IF fault = "insert" THEN abort("insert failed")
      ELSE IF bks[c].exists THEN retry
      ELSE IF fault = "save" THEN abort("save failed")
      ELSE IF MarkBooked(veh, u) # veh /\ vehs[v] # veh THEN retry
      ELSE TxResult("commit", "created", bks2, vehs2, c)

\* The callback of session.withTransaction run against its snapshot `snap`
\* while the collections hold `bks` / `vehs`:
\*   abort  - the callback threw, nothing is written
\*   retry  - a write hit a document changed since the snapshot
\*            (TransientTransactionError), the callback is run again
\*   commit - all writes of the callback are applied together
\* fault: "insert" / "save" make that store operation throw.
VerifyTransaction(snap, bks, vehs, sq, at, orderId, u, paymentId, fault) ==
  LET o == orders[orderId]
      c == o.bookingCode
      v == o.vehicleId
      existing == snap.bookings[c]
      veh == snap.vehicles[v]
      abort(msg) == TxResult("abort", msg, bks, vehs, 0)
      retry == TxResult("retry", "none", bks, vehs, 0)
      doc == NewBooking(o, u, orderId, paymentId, at)
      immediate == o.bookingType = "immediate"
      bks2 == [bks EXCEPT ![c] = doc]
      vehs2 == IF immediate
                 THEN [vehs EXCEPT ![v] = SaveModified(vehs[v], veh, MarkBooked(veh, u))]
                 ELSE vehs
  IN  IF existing.exists
        THEN IF existing.payStatus = "paid"
               THEN TxResult("commit", "replay", bks, vehs, c)
               ELSE abort("Booking exists but payment not completed")
      ELSE IF ~veh.exists THEN abort("Vehicle not found")
      ELSE IF ~veh.isAvailable THEN abort("Vehicle no longer available")
      ELSE IF o.bookingType = "scheduled"
              /\ VerifyConflict(snap.bookings, sq, v, o.startDate, o.endDate)
        THEN abort("Vehicle has been booked by someone else during payment process")
      ELSE IF fault = "insert" THEN abort("insert failed")
      ELSE IF bks[c].exists THEN retry
      ELSE IF immediate /\ fault = "save" THEN abort("save failed")
      ELSE IF immediate /\ MarkBooked(veh, u) # veh /\ vehs[v] # veh THEN retry
      ELSE TxResult("commit", "created", bks2, vehs2, c)

\* variant: any signature made with the key secret passes, whatever it signs
SignatureOkUnbound(signature, orderId, paymentId) ==
  signature[1] = KeySecret

\* the supplied signature equals HMAC-SHA256(key secret, orderId|paymentId)
SignatureOk(signature, orderId, paymentId) ==
  signature = Hmac(KeySecret, orderId, paymentId)

\* variant: the caller is not compared with the order's userId
VerifyStartNoOwner(p, u, orderId, paymentId, signature, fetchOk) ==
  /\ vpc[p] \in {"idle", "done"}
  /\ LET sigOk == SignatureOk(signature, orderId, paymentId)
         early(code, msg) ==
           /\ vpc' = [vpc EXCEPT ![p] = "done"]
           /\ vresp' = [vresp EXCEPT ![p] = VResp(code, msg, 0)]
           /\ vreq' = [vreq EXCEPT ![p] = 0]
           /\ vsnap' = [vsnap EXCEPT ![p] = NoSnap]
     IN  IF orderId = 0 \/ paymentId = 0
           THEN early(400, "Missing payment details")
         ELSE IF ~sigOk THEN early(400, "Invalid payment signature")
         ELSE IF ~fetchOk \/ orderId \notin DOMAIN orders
           THEN early(500, "Payment verification failed")
         ELSE /\ vpc' = [vpc EXCEPT ![p] = "tx"]
              /\ vreq' = [vreq EXCEPT ![p] = orderId]
              /\ vsnap' = [vsnap EXCEPT ![p] =
                             [bookings |-> bookings, vehicles |-> vehicles]]
              /\ vresp' = [vresp EXCEPT ![p] = NoVResp]
  /\ UNCHANGED <<otpVars, deleting, strictQuery, now, vehicles, bookings, orders, refunds, initResp>>
  /\ UNCHANGED cancelVars

\* signature check, provider fetch, ownership check, session start
VerifyStart(p, u, orderId, paymentId, signature, fetchOk) ==
  /\ vpc[p] \in {"idle", "done"}
  /\ LET sigOk == SignatureOk(signature, orderId, paymentId)
         early(code, msg) ==
           /\ vpc' = [vpc EXCEPT ![p] = "done"]
           /\ vresp' = [vresp EXCEPT ![p] = VResp(code, msg, 0)]
           /\ vreq' = [vreq EXCEPT ![p] = 0]
           /\ vsnap' = [vsnap EXCEPT ![p] = NoSnap]
     IN  IF orderId = 0 \/ paymentId = 0
           THEN early(400, "Missing payment details")
         ELSE IF ~sigOk THEN early(400, "Invalid payment signature")
         ELSE IF ~fetchOk \/ orderId \notin DOMAIN orders
           THEN early(500, "Payment verification failed")
         ELSE IF orders[orderId].userId # u
           THEN early(403, "Unauthorized payment verification")
         ELSE /\ vpc' = [vpc EXCEPT ![p] = "tx"]
              /\ vreq' = [vreq EXCEPT ![p] = orderId]
              /\ vsnap' = [vsnap EXCEPT ![p] =
                             [bookings |-> bookings, vehicles |-> vehicles]]
              /\ vresp' = [vresp EXCEPT ![p] = NoVResp]
  /\ UNCHANGED <<otpVars, deleting, strictQuery, now, vehicles, bookings, orders, refunds, initResp>>
  /\ UNCHANGED cancelVars

\* the transaction, then the confirmation mail and the response; a failing
\* sendMail is caught and logged
VerifyTx(p, fault, mailOk) ==
  /\ vpc[p] = "tx"
  /\ LET o == vreq[p]
         r == VerifyTransaction(vsnap[p], bookings, vehicles, strictQuery, now,
                                o, orders[o].userId, PaymentOf(o), fault)
     IN  /\ bookings' = r.bookings
         /\ vehicles' = r.vehicles
         /\ IF r.kind = "retry"
              THEN /\ vsnap' = [vsnap EXCEPT ![p] =
                                  [bookings |-> bookings, vehicles |-> vehicles]]
                   /\ UNCHANGED <<vpc, vresp>>
            ELSE /\ vpc' = [vpc EXCEPT ![p] = "done"]
                 /\ vsnap' = [vsnap EXCEPT ![p] = NoSnap]
                 /\ vresp' = [vresp EXCEPT ![p] =
                      IF r.kind = "abort"
                        THEN VResp(500, r.msg, 0)
                        ELSE VResp(200, r.msg, r.booking)]
  /\ UNCHANGED <<otpVars, deleting, strictQuery, now, orders, refunds, initResp, vreq>>
  /\ UNCHANGED cancelVars

\* ------------------------------------- POST /cancel-by-vehicle/:bookingCode
CResp(code, msg, refund) == [code |-> code, msg |-> msg, refund |-> refund]
NoCResp == CResp(0, "none", 0)
NoCReq == [code |-> 0, user |-> NoUser]
NoMem == [doc |-> NoBooking, edit |-> NoBooking, veh |-> NewVehicle, refundId |-> 0]

\* the findOne filter of the handler
CancelFilter(doc, u) ==
  /\ doc.exists
  /\ doc.user = u
  /\ doc.payStatus = "paid"
  /\ doc.bookingStatus \in ActiveStatuses

\* variant: only the availability flag is reset
ReleasedPartial(veh) ==
  [veh EXCEPT !.isAvailable = TRUE]

Released(veh) ==
  [veh EXCEPT !.isAvailable = TRUE, !.isBooked = FALSE,
              !.bookedBy = NoUser, !.bookedByName = NoUser]

Bump(n) == IF n < MaxRefunds THEN n + 1 ELSE n

CancelEnd(q, r) ==
  /\ cpc' = [cpc EXCEPT ![q] = "done"]
  /\ cresp' = [cresp EXCEPT ![q] = r]
  /\ cmem' = [cmem EXCEPT ![q] = NoMem]

\* variant: the 24h mark itself is no longer eligible
CancelLookupStrict(q, u, code) ==
  /\ cpc[q] \in {"idle", "done"}
  /\ creq' = [creq EXCEPT ![q] =
                IF CancelFilter(bookings[code], u) THEN [code |-> code, user |-> u]
                ELSE NoCReq]
  /\ LET doc == bookings[code]
         veh == vehicles[doc.vehicle]
         minutesDiff == now - doc.createdAt
     IN  IF ~CancelFilter(doc, u)
           THEN CancelEnd(q, CResp(404, "No active paid booking found for this code", 0))
         ELSE IF doc.bookingStatus = "Cancelled"
           THEN CancelEnd(q, CResp(400, "Booking already cancelled", 0))
         ELSE IF minutesDiff < RefundWindowHours * MinutesPerHour
           THEN /\ cpc' = [cpc EXCEPT ![q] = "refund"]
                /\ cmem' = [cmem EXCEPT ![q] =
                     [doc |-> doc, edit |-> doc, veh |-> veh, refundId |-> 0]]
                /\ cresp' = [cresp EXCEPT ![q] = NoCResp]
         ELSE /\ cpc' = [cpc EXCEPT ![q] = "release"]
              /\ cmem' = [cmem EXCEPT ![q] =
                   [doc |-> doc,
                    edit |-> [doc EXCEPT !.failureReason = "Cancellation after 24h, no refund available"],
                    veh |-> veh, refundId |-> 0]]
              /\ cresp' = [cresp EXCEPT ![q] = NoCResp]
  /\ UNCHANGED <<otpVars, deleting, strictQuery, now, vehicles, bookings, orders, refunds, initResp>>
  /\ UNCHANGED verifyVars

\* findOne(...).populate("vehicle"), already-cancelled check, refund eligibility
CancelLookup(q, u, code) ==
  /\ cpc[q] \in {"idle", "done"}
  /\ creq' = [creq EXCEPT ![q] =
                IF CancelFilter(bookings[code], u) THEN [code |-> code, user |-> u]
                ELSE NoCReq]
  /\ LET doc == bookings[code]
         veh == vehicles[doc.vehicle]
         minutesDiff == now - doc.createdAt
     IN  IF ~CancelFilter(doc, u)
           THEN CancelEnd(q, CResp(404, "No active paid booking found for this code", 0))
         ELSE IF doc.bookingStatus = "Cancelled"
           THEN CancelEnd(q, CResp(400, "Booking already cancelled", 0))
         \* hoursDiff <= 24, hoursDiff the elapsed time divided by an hour
         ELSE IF minutesDiff <= RefundWindowHours * MinutesPerHour
           THEN /\ cpc' = [cpc EXCEPT ![q] = "refund"]
                /\ cmem' = [cmem EXCEPT ![q] =
                     [doc |-> doc, edit |-> doc, veh |-> veh, refundId |-> 0]]
                /\ cresp' = [cresp EXCEPT ![q] = NoCResp]
         ELSE /\ cpc' = [cpc EXCEPT ![q] = "release"]
              /\ cmem' = [cmem EXCEPT ![q] =
                   [doc |-> doc,
                    edit |-> [doc EXCEPT !.failureReason = "Cancellation after 24h, no refund available"],
                    veh |-> veh, refundId |-> 0]]
              /\ cresp' = [cresp EXCEPT ![q] = NoCResp]
  /\ UNCHANGED <<otpVars, deleting, strictQuery, now, vehicles, bookings, orders, refunds, initResp>>
  /\ UNCHANGED verifyVars

\* razorpay.payments.refund, in-memory refund fields, refund-success mail;
\* both awaits sit in one try block whose catch answers 500 "Refund failed"
CancelRefund(q, refundOk, mailOk) ==
  /\ cpc[q] = "refund"
  /\ LET pay == cmem[q].doc.providerPaymentId
         id == Bump(refunds[pay])
     IN  IF ~refundOk
           THEN /\ CancelEnd(q, CResp(500, "Refund failed", 0))
                /\ refunds' = refunds
         ELSE /\ refunds' = [refunds EXCEPT ![pay] = id]
              /\ IF ~mailOk
                   THEN CancelEnd(q, CResp(500, "Refund failed", 0))
                   ELSE /\ cpc' = [cpc EXCEPT ![q] = "release"]
                        /\ cmem' = [cmem EXCEPT ![q].refundId = id,
                                      ![q].edit = [@ EXCEPT !.isRefunded = TRUE,
                                                            !.refundId = id,
                                                            !.paymentStatus = "Refunded"]]
                        /\ cresp' = cresp
  /\ UNCHANGED <<otpVars, deleting, strictQuery, now, vehicles, bookings, orders, initResp, creq>>
  /\ UNCHANGED verifyVars

\* vehicle.save() of the populated vehicle
CancelRelease(q) ==
  /\ cpc[q] = "release"
  /\ LET v == cmem[q].doc.vehicle
         loaded == cmem[q].veh
     IN  IF ~loaded.exists
           THEN /\ vehicles' = vehicles
                /\ cpc' = [cpc EXCEPT ![q] = "persist"]
                /\ UNCHANGED <<cmem, cresp>>
         ELSE IF Released(loaded) # loaded /\ ~vehicles[v].exists
           THEN /\ vehicles' = vehicles
                /\ CancelEnd(q, CResp(500, "Failed to cancel booking", 0))
         ELSE /\ vehicles' = [vehicles EXCEPT ![v] =
                                SaveModified(vehicles[v], loaded, Released(loaded))]
              /\ cpc' = [cpc EXCEPT ![q] = "persist"]
              /\ UNCHANGED <<cmem, cresp>>
  /\ UNCHANGED <<otpVars, deleting, strictQuery, now, bookings, orders, refunds, initResp, creq>>
  /\ UNCHANGED verifyVars

\* status fields assigned before bookingPayment.save()
Cancelled(edit, refundId) ==
  SchemaCast([edit EXCEPT !.bookingStatus = "Cancelled", !.status = "Cancelled",
                          !.paymentStatus = IF refundId = 0 THEN "No Refund" ELSE @])

\* bookingPayment.save(), cancellation mail (a failing sendMail is caught
\* and logged), response
CancelPersist(q, mailOk) ==
  /\ cpc[q] = "persist"
  /\ LET code == creq[q].code
         m == cmem[q]
     IN  /\ bookings' = [bookings EXCEPT ![code] =
                           SaveModified(bookings[code], m.doc, Cancelled(m.edit, m.refundId))]
         /\ CancelEnd(q, CResp(200, "Booking cancelled successfully", m.refundId))
  /\ UNCHANGED <<otpVars, deleting, strictQuery, now, vehicles, orders, refunds, initResp, creq>>
  /\ UNCHANGED verifyVars

\* ------------------------------------------- admin and vehicle endpoints
\* a vehicle id after its document is removed
NoVehicle ==
  [exists |-> FALSE, isAvailable |-> FALSE, isBooked |-> FALSE,
   bookedBy |-> NoUser, bookedByName |-> NoUser]

\* Model.findByIdAndUpdate(id, update): the paths of the update that the
\* schema has are set, the others are dropped
FindByIdAndUpdate(doc, update) ==
  [f \in DOMAIN doc |-> IF f \in DOMAIN update THEN update[f] ELSE doc[f]]

\* PATCH /api/admin/vehicles/:id/toggle-availability
ToggleAvailability(v) ==
  /\ vehicles[v].exists
  /\ vehicles' = [vehicles EXCEPT ![v].isAvailable = ~vehicles[v].isAvailable]
  /\ UNCHANGED <<otpVars, deleting, strictQuery, now, bookings, orders, refunds, initResp>>
  /\ UNCHANGED verifyVars
  /\ UNCHANGED cancelVars

\* the isAvailable field of the admin form: absent, or a value that is true
\* only when it is 'true' or true
FormFlags == {"absent", "true", "false"}

\* PUT /api/admin/vehicles/:id
AdminUpdateVehicle(v, isAvailableIn) ==
  /\ vehicles[v].exists
  /\ LET existingVehicle == vehicles[v]
         updateData == [isAvailable |-> IF isAvailableIn # "absent"
                                          THEN isAvailableIn = "true"
                                          ELSE existingVehicle.isAvailable]
     IN  vehicles' = [vehicles EXCEPT ![v] = FindByIdAndUpdate(vehicles[v], updateData)]
  /\ UNCHANGED <<otpVars, deleting, strictQuery, now, bookings, orders, refunds, initResp>>
  /\ UNCHANGED verifyVars
  /\ UNCHANGED cancelVars

\* request bodies of PUT /api/vehicles/:id: the validators look at the listed
\* descriptive fields only, any other field of the body passes through
VehicleUpdates ==
  {[name |-> "renamed"], [isAvailable |-> TRUE], [isAvailable |-> FALSE],
   [isBooked |-> TRUE], [isBooked |-> FALSE], [bookedBy |-> 1]}

\* PUT /api/vehicles/:id
UpdateVehicle(v, updates) ==
  /\ vehicles[v].exists
  /\ vehicles' = [vehicles EXCEPT ![v] = FindByIdAndUpdate(vehicles[v], updates)]
  /\ UNCHANGED <<otpVars, deleting, strictQuery, now, bookings, orders, refunds, initResp>>
  /\ UNCHANGED verifyVars
  /\ UNCHANGED cancelVars

\* Booking.countDocuments({vehicle, status: {$in: ['Pending','Confirmed']}})
ActiveBookings(bks, sq, v) ==
  Cardinality({c \in DOMAIN bks :
                 bks[c].exists /\ bks[c].vehicle = v /\ StatusClause(bks[c], sq)})

\* DELETE /api/admin/vehicles/:id up to the count: the vehicle is found and
\* the count is zero (otherwise the request ends with 404 or 400)
AdminDeleteCheck(v) ==
  /\ v \notin deleting
  /\ vehicles[v].exists
  /\ ActiveBookings(bookings, strictQuery, v) = 0
  /\ deleting' = deleting \cup {v}
  /\ UNCHANGED <<otpVars, strictQuery, now, vehicles, bookings, orders, refunds, initResp>>
  /\ UNCHANGED verifyVars
  /\ UNCHANGED cancelVars

\* DELETE /api/admin/vehicles/:id, the findByIdAndDelete after the count
AdminDeleteVehicle(v) ==
  /\ v \in deleting
  /\ deleting' = deleting \ {v}
  /\ vehicles' = [vehicles EXCEPT ![v] = NoVehicle]
  /\ UNCHANGED <<otpVars, strictQuery, now, bookings, orders, refunds, initResp>>
  /\ UNCHANGED verifyVars
  /\ UNCHANGED cancelVars

\* DELETE /api/vehicles/:id
DeleteVehicle(v) ==
  /\ vehicles[v].exists
  /\ vehicles' = [vehicles EXCEPT ![v] = NoVehicle]
  /\ UNCHANGED <<otpVars, deleting, strictQuery, now, bookings, orders, refunds, initResp>>
  /\ UNCHANGED verifyVars
  /\ UNCHANGED cancelVars

BookingStatuses == {"Pending", "Confirmed", "Completed", "Cancelled"}

\* PUT /api/admin/bookings/:id/status
AdminBookingStatus(c, status) ==
  /\ bookings[c].exists
  /\ bookings' = [bookings EXCEPT ![c] =
                    SchemaCast(FindByIdAndUpdate(bookings[c], [status |-> status]))]
  /\ UNCHANGED <<otpVars, deleting, strictQuery, now, vehicles, orders, refunds, initResp>>
  /\ UNCHANGED verifyVars
  /\ UNCHANGED cancelVars

\* ------------------------------------------------------------ specifications
Init ==
  /\ strictQuery \in BOOLEAN
  /\ now = 0
  /\ vehicles = [v \in Vehicles |-> NewVehicle]
  /\ bookings = [c \in Codes |-> NoBooking]
  /\ orders = <<>>
  /\ refunds = [c \in Codes |-> 0]
  /\ initResp = NoResp
  /\ vpc = [p \in VerifyProcs |-> "idle"]
  /\ vreq = [p \in VerifyProcs |-> 0]
  /\ vsnap = [p \in VerifyProcs |-> NoSnap]
  /\ vresp = [p \in VerifyProcs |-> NoVResp]
  /\ cpc = [q \in CancelProcs |-> "idle"]
  /\ creq = [q \in CancelProcs |-> NoCReq]
  /\ cmem = [q \in CancelProcs |-> NoMem]
  /\ cresp = [q \in CancelProcs |-> NoCResp]
  /\ deleting = {}
  /\ otpStore = [e \in Emails |-> NoOtp]
  /\ accounts = [e \in Emails |-> NoAccount]
  /\ opc = [p \in OtpProcs |-> "idle"]
  /\ oreq = [p \in OtpProcs |-> NoOReq]
  /\ oresp = [p \in OtpProcs |-> NoResp]

Request(v, amount, origin, destination, s, e) ==
  [vehicleId |-> v, amount |-> amount, origin |-> origin,
   destination |-> destination, startDate |-> s, endDate |-> e]

\* well-formed booking requests: immediate, or one of the windows
GoodRequests ==
  {Request(v, Amount, "A", "B", NoDateIn, NoDateIn) : v \in Vehicles}
    \cup {Request(v, Amount, "A", "B", DateIn(w[1]), DateIn(w[2])) :
            v \in Vehicles, w \in Windows}

\* an immediate booking and a scheduled one
CancelRequests ==
  {r \in GoodRequests : r.startDate \in {NoDateIn, DateIn(1800)} /\ r.endDate \in {NoDateIn, DateIn(3600)}}

\* an immediate booking
ImmediateRequests == {r \in GoodRequests : r.startDate = NoDateIn}

\* requests that trip one of the validation rules
BadRequests ==
  {Request(MalformedId, Amount, "A", "B", NoDateIn, NoDateIn),
   Request(1, 0, "A", "B", NoDateIn, NoDateIn),
   Request(1, Amount, "", "B", NoDateIn, NoDateIn),
   Request(1, Amount, "A", "B", DateIn(2400), NoDateIn),
   Request(1, Amount, "A", "B", BadDateIn, DateIn(2400)),
   Request(1, Amount, "A", "B", OldDateIn, DateIn(2400)),
   Request(1, Amount, "A", "B", DateIn(2400), DateIn(1800)),
   Request(MissingVehicleId, Amount, "A", "B", NoDateIn, NoDateIn)}

\* requests that trip several validation rules at once
FaultyRequests ==
  {Request(v, a, o, "B", d[1], d[2]) :
     v \in {MalformedId, 1, MissingVehicleId}, a \in {0, Amount}, o \in {"", "A"},
     d \in {<<NoDateIn, NoDateIn>>, <<DateIn(2400), NoDateIn>>,
            <<BadDateIn, DateIn(2400)>>, <<DateIn(2400), DateIn(1800)>>,
            <<DateIn(1800), DateIn(1830)>>, <<DateIn(1800), DateIn(3600)>>}}

\* create-order calls, out of the requests `reqs`, that open a provider order
CreateOrderOk(reqs) ==
  \E u \in Users, r \in reqs :
    /\ CreateOrderCheck(r.vehicleId, r.amount, r.origin, r.destination,
                        r.startDate, r.endDate).code = 200
    /\ CreateOrder(u, r.vehicleId, r.amount, r.origin, r.destination,
                   r.startDate, r.endDate, TRUE)

\* every kind of create-order call: the well-formed requests by each user,
\* and the ones validation refuses
CreateOrderAny ==
  \/ \E u \in Users, r \in CancelRequests, providerOk \in BOOLEAN :
       CreateOrder(u, r.vehicleId, r.amount, r.origin, r.destination,
                   r.startDate, r.endDate, providerOk)
  \/ \E r \in BadRequests \cup FaultyRequests :
       CreateOrder(1, r.vehicleId, r.amount, r.origin, r.destination,
                   r.startDate, r.endDate, TRUE)

\* verify callbacks as the payment page sends them for a paid order
VerifyStartOk(p) ==
  \E o \in DOMAIN orders :
    VerifyStart(p, orders[o].userId, o, PaymentOf(o),
                Hmac(KeySecret, o, PaymentOf(o)), TRUE)

\* every kind of verify call, as <<user, orderId, paymentId, signature>>:
\* properly signed callbacks sent by any user, and calls with a detail
\* missing or with a signature that is not the one of their order and payment
VerifyCalls ==
  {c \in Users \X (0..MaxOrders) \X (0..MaxOrders) \X Signatures :
     \/ c[4] = Hmac(KeySecret, c[2], c[3])
     \/ c[1] = 1 /\ c[2] # 0 /\ c[3] # 0
     \/ c[1] = 1 /\ c[4] = Hmac(KeySecret, 1, PaymentOf(1))}

VerifyStartAny(p) ==
  \E c \in VerifyCalls, fetchOk \in BOOLEAN :
    VerifyStart(p, c[1], c[2], c[3], c[4], fetchOk)

VerifyTxStep(p) ==
  \E fault \in {"none", "insert", "save"}, mailOk \in BOOLEAN : VerifyTx(p, fault, mailOk)

CancelLookupStep == \E q \in CancelProcs, u \in Users, c \in Codes : CancelLookup(q, u, c)
CancelRefundStep ==
  \E q \in CancelProcs, refundOk \in BOOLEAN, mailOk \in BOOLEAN : CancelRefund(q, refundOk, mailOk)
CancelReleaseStep == \E q \in CancelProcs : CancelRelease(q)
CancelPersistStep == \E q \in CancelProcs, mailOk \in BOOLEAN : CancelPersist(q, mailOk)

\* concurrent verifications of paid orders
NextVerify ==
  \/ CreateOrderOk(GoodRequests)
  \/ \E p \in VerifyProcs : VerifyStartOk(p)
  \/ \E p \in VerifyProcs : VerifyTxStep(p)

SpecVerify == Init /\ [][NextVerify]_vars

\* every request, well-formed or not, one verification at a time
NextRequests ==
  \/ CreateOrderAny
  \/ VerifyStartAny(1)
  \/ VerifyTxStep(1)

SpecRequests == Init /\ [][NextRequests]_vars

\* booking, cancelling and the clock
Next ==
  \/ CreateOrderOk(CancelRequests)
  \/ VerifyStartOk(1)
  \/ VerifyTxStep(1)
  \/ CancelLookupStep
  \/ CancelRefundStep
  \/ CancelReleaseStep
  \/ CancelPersistStep
  \/ Tick

Spec == Init /\ [][Next]_vars

\* cancellations of immediate bookings around the refund boundary
NextCancel ==
  \/ CreateOrderOk(ImmediateRequests)
  \/ VerifyStartOk(1)
  \/ VerifyTxStep(1)
  \/ CancelLookupStep
  \/ CancelRefundStep
  \/ CancelReleaseStep
  \/ CancelPersistStep
  \/ TickFine

SpecCancel == Init /\ [][NextCancel]_vars

\* the vehicle endpoints of the admin and vehicle routers
VehicleAdminStep ==
  \/ \E v \in Vehicles : ToggleAvailability(v)
  \/ \E v \in Vehicles, f \in FormFlags : AdminUpdateVehicle(v, f)
  \/ \E v \in Vehicles, u \in VehicleUpdates : UpdateVehicle(v, u)
  \/ \E v \in Vehicles : AdminDeleteCheck(v)
  \/ \E v \in Vehicles : AdminDeleteVehicle(v)
  \/ \E v \in Vehicles : DeleteVehicle(v)

AdminBookingStatusStep ==
  \E c \in Codes, st \in BookingStatuses : AdminBookingStatus(c, st)

\* booking next to the vehicle endpoints
NextAdmin ==
  \/ CreateOrderOk(CancelRequests)
  \/ VerifyStartOk(1)
  \/ VerifyTxStep(1)
  \/ VehicleAdminStep

SpecAdmin == Init /\ [][NextAdmin]_vars

\* booking and cancelling next to the admin's availability toggle and
\* booking-status update
NextStatus ==
  \/ CreateOrderOk(CancelRequests)
  \/ VerifyStartOk(1)
  \/ VerifyTxStep(1)
  \/ CancelLookupStep
  \/ CancelRefundStep
  \/ CancelReleaseStep
  \/ CancelPersistStep
  \/ \E v \in Vehicles : ToggleAvailability(v)
  \/ AdminBookingStatusStep

SpecStatus == Init /\ [][NextStatus]_vars

\* ------------------------------------------------------------ OTP flows
bookingVars ==
  <<strictQuery, vehicles, bookings, orders, refunds, initResp,
    vpc, vreq, vsnap, vresp, cpc, creq, cmem, cresp, deleting>>

\* storeOTP (936-939)
StoreOTP(store, at, email, otp, userData, type) ==
  [store EXCEPT ![email] =
     [present |-> TRUE, otp |-> otp, userData |-> userData, type |-> type,
      expiry |-> at + OtpTtlMinutes, attempts |-> 0, userId |-> FALSE]]

\* validateOTP (941-964): the answer and the store it leaves
ValidateOTP(store, at, email, inputOtp) ==
  LET record == store[email] IN
  IF ~record.present
    THEN [valid |-> FALSE, error |-> "No OTP found for this email", store |-> store]
  ELSE IF at > record.expiry
    THEN [valid |-> FALSE, error |-> "OTP has expired",
          store |-> [store EXCEPT ![email] = NoOtp]]
  ELSE IF record.attempts >= MaxOtpAttempts
    THEN [valid |-> FALSE,
          error |-> "Too many failed attempts. Please request a new OTP.",
          store |-> [store EXCEPT ![email] = NoOtp]]
  ELSE IF record.otp # inputOtp
    THEN [valid |-> FALSE, error |-> "Invalid OTP",
          store |-> [store EXCEPT ![email].attempts = @ + 1]]
  ELSE [valid |-> TRUE, error |-> "none", store |-> store]

\* the periodic purge of expired records (970-975)
CleanupOtp ==
  /\ otpStore' = [e \in Emails |->
       IF otpStore[e].present /\ now > otpStore[e].expiry
         THEN NoOtp ELSE otpStore[e]]
  /\ UNCHANGED <<now, accounts, opc, oreq, oresp>>
  /\ UNCHANGED bookingVars

\* POST /register (980-1038): the email is free; the hashed password waits
\* in the record
Register(email, password, otp) ==
  /\ ~accounts[email].exists
  /\ otpStore' = StoreOTP(otpStore, now, email, otp, Hash(password), "register")
  /\ UNCHANGED <<now, accounts, opc, oreq, oresp>>
  /\ UNCHANGED bookingVars

\* POST /login (1082-1118): password matches; the record gets the user id
Login(email, password, otp) ==
  /\ accounts[email].exists
  /\ Compare(password, accounts[email].password)
  /\ otpStore' =
       [StoreOTP(otpStore, now, email, otp, NoUserData, "login")
          EXCEPT ![email].userId = TRUE]
  /\ UNCHANGED <<now, accounts, opc, oreq, oresp>>
  /\ UNCHANGED bookingVars

\* POST /forgot-password (1240-1264)
ForgotPassword(email, otp) ==
  /\ accounts[email].exists
  /\ otpStore' = StoreOTP(otpStore, now, email, otp, NoUserData, "forgot")
  /\ UNCHANGED <<now, accounts, opc, oreq, oresp>>
  /\ UNCHANGED bookingVars

\* POST /resend-otp (1175-1203): same record, new code, new expiry, attempts 0
ResendOtp(email, otp) ==
  /\ otpStore[email].present
  /\ otpStore' = [otpStore EXCEPT ![email].otp = otp,
                                  ![email].expiry = now + OtpTtlMinutes,
                                  ![email].attempts = 0]
  /\ UNCHANGED <<now, accounts, opc, oreq, oresp>>
  /\ UNCHANGED bookingVars

\* the flow check each verifying endpoint makes on the validated record
FlowMatches(flow, record) ==
  CASE flow = "register" -> record.userData # NoUserData /\ record.type = "register"
    [] flow = "login"    -> record.userId /\ record.type = "login"
    [] flow = "forgot"   -> record.type = "forgot"

FlowMismatch(flow) ==
  CASE flow = "register" -> "Invalid registration attempt"
    [] flow = "login"    -> "Invalid login attempt"
    [] flow = "forgot"   -> "Invalid password reset attempt"

\* POST /register/verify (1041-1052), /login/verify (1121-1133),
\* /reset-password (1266-1279): up to the first await
OtpVerify(p, flow, email, inputOtp, newPassword) ==
  LET validation == ValidateOTP(otpStore, now, email, inputOtp)
      record == otpStore[email]
  IN
  /\ opc[p] # "await"
  /\ otpStore' = validation.store
  /\ IF ~validation.valid
       THEN /\ oresp' = [oresp EXCEPT ![p] = Resp(400, validation.error)]
            /\ opc' = [opc EXCEPT ![p] = "done"]
            /\ oreq' = [oreq EXCEPT ![p] = NoOReq]
     ELSE IF ~FlowMatches(flow, record)
       THEN /\ oresp' = [oresp EXCEPT ![p] = Resp(400, FlowMismatch(flow))]
            /\ opc' = [opc EXCEPT ![p] = "done"]
            /\ oreq' = [oreq EXCEPT ![p] = NoOReq]
     ELSE /\ oresp' = [oresp EXCEPT ![p] = NoResp]
          /\ opc' = [opc EXCEPT ![p] = "await"]
          /\ oreq' = [oreq EXCEPT ![p] =
               [flow |-> flow, email |-> email, otp |-> inputOtp,
                expiry |-> record.expiry, userData |-> record.userData,
                newPassword |-> newPassword]]
  /\ UNCHANGED <<now, accounts>>
  /\ UNCHANGED bookingVars

\* the rest of the three handlers, after the database calls return
\* (1054-1078, 1135-1171, 1281-1290)
OtpComplete(p) ==
  LET r == oreq[p]
      email == r.email
  IN
  /\ opc[p] = "await"
  /\ opc' = [opc EXCEPT ![p] = "done"]
  /\ oreq' = [oreq EXCEPT ![p] = NoOReq]
  /\ CASE r.flow = "register" ->
            IF accounts[email].exists
              THEN \* unique index on email: User.create throws
                   /\ oresp' = [oresp EXCEPT ![p] =
                        Resp(500, "Verification failed. Please try again.")]
                   /\ UNCHANGED <<accounts, otpStore>>
              ELSE /\ accounts' = [accounts EXCEPT ![email] =
                        [exists |-> TRUE, password |-> r.userData]]
                   /\ otpStore' = [otpStore EXCEPT ![email] = NoOtp]
                   /\ oresp' = [oresp EXCEPT ![p] =
                        Resp(200, "Registration verified successfully")]
       [] r.flow = "login" ->
            IF ~accounts[email].exists
              THEN /\ oresp' = [oresp EXCEPT ![p] = Resp(400, "User account not found")]
                   /\ UNCHANGED <<accounts, otpStore>>
              ELSE /\ otpStore' = [otpStore EXCEPT ![email] = NoOtp]
                   /\ oresp' = [oresp EXCEPT ![p] = Resp(200, "Login successful")]
                   /\ UNCHANGED accounts
       [] r.flow = "forgot" ->
            /\ accounts' = [accounts EXCEPT ![email].password =
                 IF accounts[email].exists THEN Hash(r.newPassword) ELSE @]
            /\ otpStore' = [otpStore EXCEPT ![email] = NoOtp]
            /\ oresp' = [oresp EXCEPT ![p] = Resp(200, "Password reset successfully")]
  /\ UNCHANGED now
  /\ UNCHANGED bookingVars

NextOtp ==
  \/ \E e \in Emails, pw \in Passwords, otp \in OtpValues : Register(e, pw, otp)
  \/ \E e \in Emails, pw \in Passwords, otp \in OtpValues : Login(e, pw, otp)
  \/ \E e \in Emails, otp \in OtpValues : ForgotPassword(e, otp)
  \/ \E e \in Emails, otp \in OtpValues : ResendOtp(e, otp)
  \/ \E p \in OtpProcs, flow \in Flows, e \in Emails, otp \in OtpValues,
        pw \in Passwords : OtpVerify(p, flow, e, otp, pw)
  \/ \E p \in OtpProcs : OtpComplete(p)
  \/ CleanupOtp
  \/ \E t \in OtpClockValues : TickTo(t)

SpecOtp == Init /\ [][NextOtp]_vars

\* ------------------------------------------------------------------ claims
\* closed-interval overlap of two windows
Overlap(s1, e1, s2, e2) == s1 <= e2 /\ e1 >= s2

Active(c) == bookings[c].exists /\ bookings[c].bookingStatus \in ActiveStatuses
Scheduled(c) == bookings[c].endDate # NullDate

\* a step of the verification running as p: its transaction ended, or was retried
VerifyEnds(p) == vpc[p] = "tx" /\ vpc'[p] = "done"
VerifyRetries(p) == vpc[p] = "tx" /\ vpc'[p] = "tx" /\ vsnap'[p] # vsnap[p]

\* C1: no vehicle ever has two Pending/Confirmed reservations whose
\* [startDate, endDate] windows overlap (touching endpoints included).
C1_NoDoubleBooking ==
  \A c1 \in Codes, c2 \in Codes :
    (/\ c1 # c2
     /\ Active(c1) /\ Active(c2)
     /\ Scheduled(c1) /\ Scheduled(c2)
     /\ bookings[c1].vehicle = bookings[c2].vehicle)
    => ~Overlap(bookings[c1].startDate, bookings[c1].endDate,
                bookings[c2].startDate, bookings[c2].endDate)

\* C2: a verification of a scheduled order never commits its reservation
\* when a concurrent verification has committed, since this one's snapshot,
\* a Confirmed reservation of the same vehicle with an overlapping window.
C2_ConcurrentVerifyExcludes ==
  [][\A p \in VerifyProcs :
       LET o == orders[vreq[p]]
           c == o.bookingCode
       IN  (/\ VerifyEnds(p)
            /\ o.bookingType = "scheduled"
            /\ ~bookings[c].exists
            /\ \E d \in Codes \ {c} :
                 /\ ~vsnap[p].bookings[d].exists
                 /\ Active(d) /\ Scheduled(d)
                 /\ bookings[d].vehicle = o.vehicleId
                 /\ Overlap(bookings[d].startDate, bookings[d].endDate,
                            o.startDate, o.endDate))
           => /\ ~bookings'[c].exists
              /\ vresp'[p].code # 200]_vars

\* responses of a verification whose store operation itself failed
StorageFaults == {"insert failed", "save failed"}

\* C3: once the reservation of an order is stored, every verification of that
\* order that ends (sequential or concurrent, the store itself not failing)
\* returns that reservation with success and changes neither the reservations
\* nor the vehicles.
C3_VerifyIdempotent ==
  [][\A p \in VerifyProcs :
       LET c == orders[vreq[p]].bookingCode
       IN  (/\ VerifyEnds(p) /\ bookings[c].exists
            /\ vresp'[p].msg \notin StorageFaults)
           => /\ vresp'[p] = VResp(200, "replay", c)
              /\ UNCHANGED dbVars]_vars

\* C4: a verification whose signature is not the HMAC of its orderId|paymentId
\* under the key secret answers 400 "Invalid payment signature" whether or not
\* the provider would answer, opens no transaction, and leaves reservations
\* and vehicles as they were.
C4_BadSignatureRejected ==
  [][\A p \in VerifyProcs :
       \/ vpc'[p] = vpc[p] /\ vresp'[p] = vresp[p]
       \/ \A u \in Users, o \in 1..MaxOrders, pay \in 1..MaxOrders,
            sig \in Signatures, fetchOk \in BOOLEAN :
           (sig # Hmac(KeySecret, o, pay) /\ VerifyStart(p, u, o, pay, sig, fetchOk))
           => /\ vresp'[p] = VResp(400, "Invalid payment signature", 0)
              /\ vpc'[p] = "done"
              /\ vsnap'[p] = NoSnap
              /\ UNCHANGED dbVars]_vars

\* a forged or misdirected signature was rejected while a paid order existed
C4_Witness ==
  /\ Len(orders) > 0
  /\ \E p \in VerifyProcs : vresp[p] = VResp(400, "Invalid payment signature", 0)

\* C5: create-order never changes reservations or vehicles, whether it succeeds
\* or fails; a reservation row only appears in the step that ends a
\* verification of its order with "created"; every row has payment status
\* paid, never pending.
C5_DeferredCreation ==
  /\ [](\A c \in Codes : bookings[c].exists =>
          /\ bookings[c].payStatus = "paid"
          /\ c <= Len(orders) /\ bookings[c].orderId = c)
  /\ [][/\ (orders' # orders \/ initResp' # initResp) => UNCHANGED dbVars
        /\ \A c \in Codes :
             (~bookings[c].exists /\ bookings'[c].exists)
             => \E p \in VerifyProcs :
                  /\ VerifyEnds(p)
                  /\ orders[vreq[p]].bookingCode = c
                  /\ vresp'[p] = VResp(200, "created", c)]_vars

\* create-order has both refused a request and opened an order, and a
\* verification has stored a reservation
C5_Witness ==
  /\ Len(orders) = MaxOrders
  /\ initResp.code = 400
  /\ \E c \in Codes : bookings[c].exists

\* C6: a verification step that fails (any abort of the transaction, an
\* insert or a vehicle save that throws) or is retried leaves reservations and
\* vehicles as they were; one that succeeds with "created" stores exactly its
\* own Confirmed reservation and, in the same step, marks the vehicle booked
\* by its user exactly when the booking is immediate. While only create-order
\* and verify run, every Confirmed immediate reservation has its vehicle
\* marked booked by its user and every booked vehicle has such a reservation.
C6_VerifyAllOrNothing ==
  /\ [](\A c \in Codes :
          (Active(c) /\ ~Scheduled(c))
          => LET veh == vehicles[bookings[c].vehicle]
             IN  /\ ~veh.isAvailable /\ veh.isBooked
                 /\ veh.bookedBy = bookings[c].user)
  /\ [](\A v \in Vehicles :
          vehicles[v].isBooked
          => \E c \in Codes :
               /\ Active(c) /\ ~Scheduled(c)
               /\ bookings[c].vehicle = v
               /\ bookings[c].user = vehicles[v].bookedBy)
  /\ [][\A p \in VerifyProcs :
         /\ (VerifyEnds(p) /\ vresp'[p].code # 200) => UNCHANGED dbVars
         /\ VerifyRetries(p) => UNCHANGED dbVars
         /\ (VerifyEnds(p) /\ vresp'[p].msg = "created")
            => LET o == orders[vreq[p]]
                   c == o.bookingCode
                   v == o.vehicleId
               IN  /\ ~bookings[c].exists
                   /\ bookings'[c].exists
                   /\ bookings'[c].bookingStatus = "Confirmed"
                   /\ \A d \in Codes \ {c} : bookings'[d] = bookings[d]
                   /\ IF o.bookingType = "immediate"
                        THEN vehicles' = [vehicles EXCEPT ![v] =
                                            MarkBooked(vehicles[v], o.userId)]
                        ELSE vehicles' = vehicles]_vars

\* a vehicle save failed after the insert, and another verification stored an
\* immediate reservation
C6_Witness ==
  /\ \E p \in VerifyProcs : vresp[p] = VResp(500, "save failed", 0)
  /\ \E c \in Codes : Active(c) /\ ~Scheduled(c)

\* Confirmed immediate reservations of vehicle v
ConfirmedImmediate(v) ==
  {c \in Codes : /\ bookings[c].exists
                 /\ bookings[c].bookingStatus = "Confirmed"
                 /\ ~Scheduled(c)
                 /\ bookings[c].vehicle = v}

\* a cancellation of reservation c is between its lookup and its response
Cancelling(c) ==
  \E q \in CancelProcs : cpc[q] \in {"refund", "release", "persist"} /\ creq[q].code = c

\* C7: each vehicle has at most one Confirmed immediate reservation, and while
\* one exists that is not being cancelled the vehicle is unavailable and booked
\* by that reservation's user, also after another reservation of the vehicle
\* has been cancelled.
C7_ImmediateExclusive ==
  \A v \in Vehicles :
    /\ Cardinality(ConfirmedImmediate(v)) <= 1
    /\ \A c \in ConfirmedImmediate(v) :
         ~Cancelling(c)
         => /\ ~vehicles[v].isAvailable
            /\ vehicles[v].isBooked
            /\ vehicles[v].bookedBy = bookings[c].user

\* C8: when the provider refund call of a cancellation fails, the response is
\* an error, a failure reason is stored on the reservation, the reservation
\* stays Confirmed and the vehicle is unchanged.
C8_RefundFailureRecorded ==
  [][\A q \in CancelProcs, mailOk \in BOOLEAN :
       CancelRefund(q, FALSE, mailOk)
       => LET c == creq[q].code
          IN  /\ cresp'[q].code = 500
              /\ bookings'[c].failureReason # "none"
              /\ bookings'[c].bookingStatus = "Confirmed"
              /\ vehicles' = vehicles]_vars

\* C9: a step of verify or cancel in which the mail dispatch fails ends in the
\* state, response included, in which it ends when the dispatch succeeds.
C9_MailFailureIsolated ==
  [][/\ \A p \in VerifyProcs, fault \in {"none", "insert", "save"} :
          VerifyTx(p, fault, FALSE) => VerifyTx(p, fault, TRUE)
     /\ \A q \in CancelProcs :
          /\ CancelPersist(q, FALSE) => CancelPersist(q, TRUE)
          /\ \A refundOk \in BOOLEAN :
               CancelRefund(q, refundOk, FALSE) => CancelRefund(q, refundOk, TRUE)]_vars

Age(c) == now - bookings[c].createdAt
RefundWindow == RefundWindowHours * MinutesPerHour

\* C11: a cancellation found its paid reservation older than 24 hours goes
\* straight to the release without a refund step, no later step of it refunds,
\* and once it has answered 200 without refund the reservation has
\* paymentStatus "No Refund", bookingStatus and status Cancelled, is not marked
\* refunded, and the vehicle (no other Confirmed immediate reservation holding
\* it) is available, not booked, with its pointers cleared.
C11_LateCancelNoRefund ==
  /\ [](\A q \in CancelProcs :
          (cpc[q] = "done" /\ cresp[q].code = 200 /\ cresp[q].refund = 0)
          => LET b == bookings[creq[q].code]
                 veh == vehicles[b.vehicle]
             IN  /\ b.paymentStatus = "No Refund"
                 /\ b.bookingStatus = "Cancelled"
                 /\ b.status = "Cancelled"
                 /\ ~b.isRefunded
                 /\ ConfirmedImmediate(b.vehicle) = {}
                    => /\ veh.isAvailable /\ ~veh.isBooked
                       /\ veh.bookedBy = NoUser /\ veh.bookedByName = NoUser)
  /\ [][\A q \in CancelProcs :
         /\ \A u \in Users, c \in Codes :
              (CancelLookup(q, u, c) /\ CancelFilter(bookings[c], u)
                 /\ Age(c) > RefundWindow)
              => cpc'[q] = "release" /\ refunds' = refunds
         /\ cpc[q] \in {"release", "persist"} => refunds' = refunds]_vars

\* C12: a cancellation that finds its reservation goes on to the provider
\* refund call exactly when at most 24 hours have passed since createdAt (the
\* 24h mark included, so also at 23h59m and not at 24h01m); the provider's
\* refund count only changes in the step that makes that call.
C12_RefundBoundary ==
  [][\A q \in CancelProcs :
       /\ \A u \in Users, c \in Codes :
            (CancelLookup(q, u, c) /\ CancelFilter(bookings[c], u))
            => /\ Age(c) <= RefundWindow => cpc'[q] = "refund"
               /\ Age(c) > RefundWindow => cpc'[q] = "release"
       /\ refunds' # refunds => cpc[q] = "refund"]_vars

\* a cancellation is about to call the refund API exactly at the 24h mark
C12_Witness ==
  \E q \in CancelProcs :
    /\ cpc[q] = "refund"
    /\ Age(creq[q].code) = RefundWindow

\* C14: a cancellation by its owner of a reservation that is already
\* Cancelled answers 400 "Booking already cancelled", not the not-found
\* error, and changes neither the stores nor the provider's refunds.
C14_AlreadyCancelled ==
  [][\A q \in CancelProcs, u \in Users, c \in Codes :
       (/\ CancelLookup(q, u, c)
        /\ bookings[c].exists /\ bookings[c].user = u
        /\ bookings[c].bookingStatus = "Cancelled")
       => /\ cresp'[q] = CResp(400, "Booking already cancelled", 0)
          /\ UNCHANGED <<dbVars, refunds>>]_vars

\* C13: a verification carrying the valid signature of an order, sent by a
\* user other than the one in the order's metadata, ends at once without
\* success and without a reservation in its response, with 403 "Unauthorized
\* payment verification" when the provider returns the order, and leaves
\* reservations and vehicles unchanged, whether or not the order has already
\* been verified by its owner.
C13_ForeignVerifyRejected ==
  [][\A p \in VerifyProcs :
       \/ vpc'[p] = vpc[p] /\ vresp'[p] = vresp[p]
       \/ \A u \in Users, o \in DOMAIN orders, fetchOk \in BOOLEAN :
            (/\ orders[o].userId # u
             /\ VerifyStart(p, u, o, PaymentOf(o), Hmac(KeySecret, o, PaymentOf(o)),
                            fetchOk))
            => /\ vpc'[p] = "done"
               /\ vresp'[p].code # 200 /\ vresp'[p].booking = 0
               /\ fetchOk => vresp'[p] = VResp(403, "Unauthorized payment verification", 0)
               /\ vsnap'[p] = NoSnap
               /\ UNCHANGED dbVars]_vars

\* a verification was refused as unauthorized while every order had already
\* been verified by its owner
C13_Witness ==
  /\ Len(orders) > 0
  /\ \A o \in DOMAIN orders : bookings[orders[o].bookingCode].exists
  /\ \E p \in VerifyProcs :
       vresp[p] = VResp(403, "Unauthorized payment verification", 0)

\* the requests create-order is examined with
AllRequests == GoodRequests \cup BadRequests \cup FaultyRequests

\* The checks of a booking request in the order the contract lists them, each
\* with the responses that report it: 1 malformed vehicle id, 2 amount,
\* 3 origin/destination, 4 dates, 5 vehicle not found, 6 vehicle unavailable,
\* 7 scheduling conflict.
CheckFails(r, i) ==
  LET hasStart == r.startDate.k # "none"
      hasEnd == r.endDate.k # "none"
      s == r.startDate.t
      e == r.endDate.t
  IN  CASE i = 1 -> r.vehicleId = MalformedId
        [] i = 2 -> r.amount <= 0
        [] i = 3 -> r.origin = "" \/ r.destination = ""
        [] i = 4 -> \/ hasStart # hasEnd
                    \/ /\ hasStart /\ hasEnd
                       /\ \/ r.startDate.k # "at" \/ r.endDate.k # "at"
                          \/ s < now + StartBufferMinutes
                          \/ e <= s
                          \/ e - s < MinDurationHours * MinutesPerHour
                          \/ e - s > MaxDurationHours * MinutesPerHour
        [] i = 5 -> r.vehicleId \notin Vehicles \/ ~vehicles[r.vehicleId].exists
        [] i = 6 -> r.vehicleId \in Vehicles /\ ~vehicles[r.vehicleId].isAvailable
        [] i = 7 -> /\ hasStart /\ hasEnd /\ r.vehicleId \in Vehicles
                    /\ CreateOrderConflict(bookings, strictQuery, r.vehicleId, s, e)

CheckMessages(i) ==
  CASE i = 1 -> {"Invalid vehicle ID"}
    [] i = 2 -> {"Invalid amount"}
    [] i = 3 -> {"Origin and destination are required"}
    [] i = 4 -> {"Please provide both start and end dates or leave both empty for immediate booking",
                 "Invalid date format",
                 "Invalid date - dates appear to be incorrect",
                 "Start time must be at least 5 minutes in the future",
                 "End time must be after start time",
                 "Minimum booking duration is 1 hour",
                 "Maximum booking duration is 30 days"}
    [] i = 5 -> {"Vehicle not found"}
    [] i = 6 -> {"Vehicle is not available for booking"}
    [] i = 7 -> {"Vehicle is already booked for the selected time period"}

\* C15: for every request, create-order's answer reports the first check, in
\* the listed order, that the request fails (an unparseable date before any
\* other rule on two supplied dates), and is a success only when none fails;
\* the provider's order list grows only in a step that answers 200 to a
\* request passing every check.
C15_FirstFailureWins ==
  /\ [](\A r \in AllRequests :
          LET res == CreateOrderCheck(r.vehicleId, r.amount, r.origin,
                                      r.destination, r.startDate, r.endDate)
          IN  /\ \A i \in 1..7 :
                   (CheckFails(r, i) /\ \A j \in 1..(i - 1) : ~CheckFails(r, j))
                   => res.code # 200 /\ res.msg \in CheckMessages(i)
              /\ (\A i \in 1..7 : ~CheckFails(r, i)) => res.code = 200
              /\ (/\ \A j \in 1..3 : ~CheckFails(r, j)
                  /\ r.startDate.k # "none" /\ r.endDate.k # "none"
                  /\ "bad" \in {r.startDate.k, r.endDate.k})
                 => res.msg = "Invalid date format")
  /\ [][orders' # orders
         => /\ initResp'.code = 200
            /\ Len(orders') = Len(orders) + 1
            /\ \E r \in AllRequests :
                 /\ \A i \in 1..7 : ~CheckFails(r, i)
                 /\ orders'[Len(orders')].vehicleId = r.vehicleId
                 /\ orders'[Len(orders')].endDate =
                      (IF r.endDate.k = "none" THEN NullDate ELSE r.endDate.t)]_vars

\* create-order refused a request for a vehicle that is booked and has a
\* scheduled reservation as well
C15_Witness ==
  /\ initResp = Resp(400, "Vehicle is not available for booking")
  /\ \E c \in Codes : Active(c) /\ Scheduled(c)
  /\ \E v \in Vehicles : ~vehicles[v].isAvailable

\* the availability flags and the booking pointer of a vehicle
Flags(veh) == <<veh.isAvailable, veh.isBooked, veh.bookedBy>>

\* C16: no vehicle is booked and available at once, or has a booking pointer
\* while not booked; and a step that changes one of isAvailable, isBooked and
\* bookedBy of a vehicle changes all three.
C16_FlagsConsistent ==
  /\ [](\A v \in Vehicles :
          vehicles[v].exists
          => /\ ~(vehicles[v].isBooked /\ vehicles[v].isAvailable)
             /\ (vehicles[v].bookedBy # NoUser => vehicles[v].isBooked))
  /\ [][\A v \in Vehicles :
          (vehicles[v].exists /\ vehicles'[v].exists
           /\ Flags(vehicles'[v]) # Flags(vehicles[v]))
          => /\ vehicles'[v].isAvailable # vehicles[v].isAvailable
             /\ vehicles'[v].isBooked # vehicles[v].isBooked
             /\ vehicles'[v].bookedBy # vehicles[v].bookedBy]_vars

\* the commit of a verify transaction, or the vehicle release of a cancel
VerifyOrCancelStep ==
  \/ \E p \in VerifyProcs : vpc[p] = "tx" /\ vpc'[p] = "done"
  \/ \E q \in CancelProcs : cpc[q] = "release" /\ cpc'[q] # "release"

\* C17: a step that changes isAvailable, isBooked, bookedBy or bookedByName
\* of a vehicle is a step of a verify transaction or the vehicle release of
\* a cancel; create-order, the admin toggle and the vehicle update endpoints
\* leave the four fields as they are.
C17_OnlyVerifyAndCancelWrite ==
  [][\A v \in Vehicles :
       (vehicles[v].exists /\ vehicles'[v].exists /\ vehicles'[v] # vehicles[v])
       => VerifyOrCancelStep]_vars

\* C18: no step removes a vehicle that a Pending or Confirmed reservation
\* references, and no Pending or Confirmed reservation references a vehicle
\* that is gone, whichever way deletes and verifications interleave.
C18_NoDeleteWhileActive ==
  /\ [][\A v \in Vehicles :
          (vehicles[v].exists /\ ~vehicles'[v].exists)
          => ~\E c \in Codes : Active(c) /\ bookings[c].vehicle = v]_vars
  /\ [](\A c \in Codes : Active(c) => vehicles[bookings[c].vehicle].exists)

\* C19: every stored reservation has bookingStatus equal to status, and has
\* bookingStatus Confirmed exactly when paymentStatus is Paid and
\* payment.status is paid.
C19_StatusFieldsInSync ==
  \A c \in Codes :
    bookings[c].exists
    => /\ bookings[c].bookingStatus = bookings[c].status
       /\ (bookings[c].bookingStatus = "Confirmed"
           <=> (bookings[c].paymentStatus = "Paid" /\ bookings[c].payStatus = "paid"))

\* C20: a verification that creates a reservation of an immediate booking
\* leaves the vehicle unavailable, booked, and pointing at the caller; a
\* verification that answers 200 for a scheduled booking changes no field of
\* any vehicle. So the vehicle is marked by the step exactly when the booking
\* is immediate.
C20_MarkedIffImmediate ==
  [][\A p \in VerifyProcs :
       (VerifyEnds(p) /\ vresp'[p].code = 200)
       => LET o == orders[vreq[p]]
              v == o.vehicleId
          IN  /\ (o.bookingType = "immediate" /\ vresp'[p].msg = "created")
                 => /\ vehicles'[v] = MarkBooked(vehicles[v], o.userId)
                    /\ ~vehicles'[v].isAvailable /\ vehicles'[v].isBooked
                    /\ vehicles'[v].bookedBy = o.userId
                    /\ vehicles'[v].bookedByName = o.userId
                    /\ vehicles'[v] # vehicles[v]
              /\ o.bookingType = "scheduled" => vehicles' = vehicles
              /\ o.bookingType \in {"immediate", "scheduled"}]_vars

\* both kinds have been verified: a scheduled reservation was created on a
\* vehicle still unmarked, and an immediate one marked its vehicle
C20_Witness ==
  \E p1, p2 \in VerifyProcs :
    /\ vresp[p1].code = 200 /\ vresp[p1].msg = "created"
    /\ vresp[p2].code = 200 /\ vresp[p2].msg = "created"
    /\ Scheduled(vresp[p1].booking)
    /\ ~Scheduled(vresp[p2].booking)
    /\ vehicles[bookings[vresp[p2].booking].vehicle].bookedBy
         = bookings[vresp[p2].booking].user

\* what a verify answers when the provider call or the document store fails
EngineFailures == {"Payment verification failed"} \cup StorageFaults

\* what a verify answers when the request itself is refused
UserFailures ==
  {"Missing payment details", "Invalid payment signature",
   "Unauthorized payment verification", "Vehicle no longer available",
   "Vehicle has been booked by someone else during payment process"}

\* C21: a verify refused for its signature, its owner, the vehicle's
\* availability or a scheduling conflict is answered with a 4xx code; a 5xx
\* code is only given to a provider or document-store failure.
C21_UserFailuresAre4xx ==
  \A p \in VerifyProcs :
    /\ vresp[p].msg \in UserFailures => vresp[p].code \in 400..499
    /\ vresp[p].code >= 500 => vresp[p].msg \in EngineFailures

\* the vehicle may take a new reservation
Eligible(veh) == veh.exists /\ veh.isAvailable /\ ~veh.isBooked

\* C22: create-order opens a provider order only for a vehicle that is
\* available and not booked; a verify creates a reservation only when the
\* vehicle it read was available and not booked, and never on a vehicle that
\* is booked when the reservation is committed.
C22_OnlyEligibleVehicles ==
  [][/\ orders' # orders => Eligible(vehicles[orders'[Len(orders')].vehicleId])
     /\ \A p \in VerifyProcs :
          (VerifyEnds(p) /\ vresp'[p].code = 200 /\ vresp'[p].msg = "created")
          => /\ Eligible(vsnap[p].vehicles[orders[vreq[p]].vehicleId])
             /\ ~vehicles[orders[vreq[p]].vehicleId].isBooked]_vars

\* C23: in no state, between the steps of a cancellation or after it has
\* ended, has the provider refunded the payment of a reservation that is not
\* stored as refunded and Cancelled, or has a cancellation released the
\* vehicle of a reservation that is still stored as Confirmed.
C23_CancelAllOrNothing ==
  /\ \A c \in Codes :
       refunds[PaymentOf(c)] > 0
       => /\ bookings[c].isRefunded
          /\ bookings[c].paymentStatus = "Refunded"
          /\ bookings[c].bookingStatus = "Cancelled"
  /\ \A q \in CancelProcs :
       cpc[q] = "persist" => bookings[creq[q].code].bookingStatus # "Confirmed"

\* the steps in which a mail is handed to the transport: the confirmation
\* after a verify transaction that returned a reservation, the refund mail
\* right after the provider refund, the cancellation mail after the last save
ConfirmationMail(p) == VerifyEnds(p) /\ vresp'[p].code = 200
RefundMail(q) == cpc[q] = "refund" /\ refunds' # refunds
CancellationMail(q) == cpc[q] = "persist" /\ cpc'[q] = "done"

\* C24: when a confirmation mail is dispatched its reservation is stored as
\* paid; when a refund or cancellation mail is dispatched the reservation is
\* stored as Cancelled, with the refund of the request recorded if it made
\* one.
C24_MailAfterCommit ==
  [][/\ \A p \in VerifyProcs :
          ConfirmationMail(p)
          => /\ bookings'[vresp'[p].booking].exists
             /\ bookings'[vresp'[p].booking].payStatus = "paid"
     /\ \A q \in CancelProcs :
          LET c == creq[q].code
          IN  /\ RefundMail(q)
                 => /\ bookings'[c].bookingStatus = "Cancelled"
                    /\ bookings'[c].isRefunded
                    /\ bookings'[c].paymentStatus = "Refunded"
              /\ CancellationMail(q)
                 => /\ bookings'[c].bookingStatus = "Cancelled"
                    /\ cmem[q].refundId # 0 => bookings'[c].isRefunded]_vars

\* some Pending or Confirmed reservation of vehicle v with a window overlaps
\* the closed interval [s, e]
ActiveOverlap(v, s, e) ==
  \E c \in Codes :
    /\ Active(c) /\ Scheduled(c) /\ bookings[c].vehicle = v
    /\ Overlap(bookings[c].startDate, bookings[c].endDate, s, e)

\* C25: where the status clause of the query lets the stored reservations
\* through, the conflict query of the verify transaction finds a reservation
\* for a window exactly when an active reservation of the vehicle overlaps the
\* window as a closed interval, a reservation lying inside the window
\* included.
C25_VerifyConflictIsOverlap ==
  strictQuery
  => \A v \in Vehicles, w \in Windows :
       VerifyConflict(bookings, strictQuery, v, w[1], w[2])
       <=> ActiveOverlap(v, w[1], w[2])

\* instants around and inside the windows a reservation can have
ProbeTimes == {1500, 1800, 2100, 2400, 2700, 3000, 3300, 3600, 3900}

\* some stored reservation of vehicle v with a window overlaps the closed
\* interval [s, e]
StoredOverlap(v, s, e) ==
  \E c \in Codes :
    /\ bookings[c].exists /\ Scheduled(c) /\ bookings[c].vehicle = v
    /\ Overlap(bookings[c].startDate, bookings[c].endDate, s, e)

\* C26: with the status clause out of the picture, the three-clause query of
\* create-order finds a reservation for an interval [s, e], s <= e, exactly
\* when a stored reservation of the vehicle overlaps it as a closed interval,
\* touching endpoints included.
C26_ThreeClausesAreOverlap ==
  \A v \in Vehicles, s \in ProbeTimes, e \in ProbeTimes :
    s <= e => (CreateOrderConflict(bookings, TRUE, v, s, e) <=> StoredOverlap(v, s, e))

\* a reservation [2400, 3000] is stored alone: the query finds it for the
\* window around it, for one inside it and for the two that touch it, and
\* not for the ones before and after it
C26_Witness ==
  /\ \E c \in Codes : bookings[c].startDate = 2400 /\ bookings[c].endDate = 3000
  /\ \A c \in Codes : Scheduled(c) => bookings[c].startDate = 2400 /\ bookings[c].endDate = 3000
  /\ CreateOrderConflict(bookings, TRUE, 1, 1800, 3600)
  /\ CreateOrderConflict(bookings, TRUE, 1, 2700, 2700)
  /\ CreateOrderConflict(bookings, TRUE, 1, 1800, 2400)
  /\ CreateOrderConflict(bookings, TRUE, 1, 3000, 3600)
  /\ ~CreateOrderConflict(bookings, TRUE, 1, 1500, 2100)
  /\ ~CreateOrderConflict(bookings, TRUE, 1, 3300, 3900)

\* C27: the conflict query of create-order finds a reservation for a window
\* exactly when a Pending or Confirmed reservation of the vehicle overlaps
\* it: a Confirmed reservation always counts, a Cancelled one never does.
C27_ConflictCountsActiveOnly ==
  \A v \in Vehicles, w \in Windows :
    CreateOrderConflict(bookings, strictQuery, v, w[1], w[2])
    <=> ActiveOverlap(v, w[1], w[2])

\* C28: over any sequence of cancellations the provider has accepted at most
\* one refund for the payment of a reservation.
C28_RefundAtMostOnce ==
  \A c \in Codes : refunds[PaymentOf(c)] <= 1

\* C29: when a verify answers 200 (and hands the confirmation mail to the
\* transport), the reservation it returns is stored as Confirmed at that
\* moment, also when the order was verified before.
C29_SuccessMeansConfirmed ==
  [][\A p \in VerifyProcs :
       ConfirmationMail(p)
       => bookings'[vresp'[p].booking].bookingStatus = "Confirmed"]_vars

\* a verification request passes validateOTP and the flow check in this step
OtpAccepted(p) == opc[p] # "await" /\ opc'[p] = "await"

\* a verification request completes its flow in this step
OtpCompleted(p) == opc[p] = "await" /\ oresp'[p].code = 200

\* request q was accepted with the OTP that p was accepted with and its
\* handler will answer 200 as well once its database calls return
HoldsSameOtp(q, p) ==
  /\ opc[q] = "await"
  /\ oreq[q].email = oreq[p].email
  /\ oreq[q].otp = oreq[p].otp
  /\ oreq[q].expiry = oreq[p].expiry
  /\ oreq[q].flow = oreq[p].flow
  /\ oreq[q].flow # "register"

OtpAcceptedOnlyIfValid ==
  \A p \in OtpProcs : OtpAccepted(p) =>
    LET record == otpStore[oreq'[p].email] IN
    /\ record.present
    /\ record.otp = oreq'[p].otp
    /\ now <= record.expiry
    /\ record.attempts < MaxOtpAttempts
    /\ record.type = oreq'[p].flow

OtpAttemptsCounted ==
  \A e \in Emails :
    /\ otpStore'[e].attempts <= MaxOtpAttempts
    /\ (otpStore[e].present /\ otpStore'[e].present
          /\ otpStore'[e].attempts # otpStore[e].attempts)
         => \/ otpStore'[e].attempts = 0
            \/ /\ otpStore'[e].attempts = otpStore[e].attempts + 1
               /\ \E p \in OtpProcs : oresp'[p] = Resp(400, "Invalid OTP")

OtpDeletedOnCompletion ==
  \A p \in OtpProcs : OtpCompleted(p) => ~otpStore'[oreq[p].email].present

OtpUsedOnce ==
  \A p \in OtpProcs : OtpCompleted(p) =>
    \A q \in OtpProcs \ {p} : ~HoldsSameOtp(q, p)

\* C30: a verification request is accepted only with the stored OTP of an
\* unexpired record of its own flow that has had fewer than three wrong
\* guesses since it was issued or resent (each wrong guess counts once); a
\* completed flow leaves no record for the email, and no second request
\* completes a flow with the OTP that has completed one.
C30_OtpBoundedAndBound ==
  [][/\ OtpAcceptedOnlyIfValid
     /\ OtpAttemptsCounted
     /\ OtpDeletedOnCompletion
     /\ OtpUsedOnce]_vars

====
